---- MODULE Spec2Model ----
(***************************************************************************)
(* CRQBank (src/app.py): a Streamlit quiz application.  One script run per *)
(* user interaction; the session dictionary st.session_state survives the  *)
(* runs of one browser session, the Supabase tables and the Stripe         *)
(* checkout sessions survive all of them.                                  *)
(*                                                                         *)
(* Python's None is the string "None".  A question's text (q["question"])  *)
(* is represented by the row's index in the question table.  time.time()   *)
(* is the token "T".                                                       *)
(***************************************************************************)
EXTENDS Integers, Sequences, FiniteSets, TLC

\* ---- bounds of the model --------------------------------------------------
MaxQ == 2
MaxOpt == 2
MaxLog == 1
Over == 2

\* ---- program constants ----------------------------------------------------
\* ids[:50]
TrialLimit == 50

\* ---- domains -------------------------------------------------------------
None == "None"
Users == {"u1", "u2"}
Topics == {"T1", "T2"}
Modes == {"Free Trial", "Full Quiz"}
TestModes == {"Tutor", "Test"}
options == <<"a", "b", "c", "d">>

\* The option buttons the modelled user presses: the first MaxOpt of options.
Clicked == {options[i] : i \in 1..(IF MaxOpt < 4 THEN MaxOpt ELSE 4)}

\* The rows a question table is drawn from: a topic and the answer column,
\* which the CSV may hold in either case.
Rows == [topic : Topics, answer : {"a", "B"}]
Banks == UNION {[1..n -> Rows] : n \in 0..MaxQ}

\* Question tables around the trial size: TrialLimit - 1 to TrialLimit + Over
\* rows, of one topic or of two topics in turn.
BigBanks ==
    {[i \in 1..n |-> [topic |-> IF two /\ i % 2 = 0 THEN "T2" ELSE "T1", answer |-> "a"]] :
        n \in (TrialLimit - 1)..(TrialLimit + Over), two \in BOOLEAN}

VARIABLES
    df,               \* the question table (read-only after load)
    user, paid, total, correct, start_time, question_list, current_q_idx,
    responses, locked_mode, locked_test_mode, test_submitted,
                      \* st.session_state
    query_params,     \* the session_id of the page URL, or None
    checkout,         \* Stripe: for each customer, the state of their checkout session
    users_paid,       \* Supabase table users: the ids with paid = true
    responses_tbl,    \* Supabase table responses, in insertion order
    warned            \* the last run caught a failed insert and reported it (st.error)

vars == <<df, user, paid, total, correct, start_time, question_list, current_q_idx,
          responses, locked_mode, locked_test_mode, test_submitted,
          query_params, checkout, users_paid, responses_tbl, warned>>

\* ---- pure helpers ----------------------------------------------------------
Min(a, b) == IF a < b THEN a ELSE b

\* str.upper() on one letter
upper(l) ==
    CASE l = "a" -> "A" [] l = "b" -> "B" [] l = "c" -> "C" [] l = "d" -> "D"
      [] OTHER -> l

\* every order random.shuffle can leave a list of the ids in S in
Shuffles(S) ==
    {s \in [1..Cardinality(S) -> S] : \A i, j \in 1..Cardinality(S) : s[i] = s[j] => i = j}

\* subset.index.tolist(): the ids in S in the order of the table
index_list(S) == SelectSeq([i \in 1..Len(df) |-> i], LAMBDA i : i \in S)

\* The orders of the ids in S that differ from the table's by a rotation
Rotations(S) ==
    LET ids == index_list(S)
        n == Len(ids)
    IN {[i \in 1..n |-> ids[((i + k - 1) % n) + 1]] : k \in 0..(n - 1)}

\* The orders random.shuffle is taken to leave the ids in S in: every order
\* of up to MaxQ ids, the rotations of more
Orders(S) == IF Cardinality(S) <= MaxQ THEN Shuffles(S) ELSE Rotations(S)

\* ["All"] + sorted(df["topic"].unique())
topics == {"All"} \cup {df[i].topic : i \in DOMAIN df}

\* df if chosen == "All" else df[df["topic"] == chosen], as its index
subset(chosen) == {i \in DOMAIN df : chosen = "All" \/ df[i].topic = chosen}

\* (mutant) no truncation
trial_never(mode, ids) == ids

\* (mutant) truncation in every mode
trial_always(mode, ids) == SubSeq(ids, 1, Min(TrialLimit, Len(ids)))

\* ids[:50] in Free Trial
trial(mode, ids) ==
    IF mode = "Free Trial" THEN SubSeq(ids, 1, Min(TrialLimit, Len(ids))) ELSE ids

\* correct = (opt == q["answer"])
is_correct(opt, answer) == opt = answer

\* the dictionary appended to st.session_state.responses
response(qid, opt) ==
    [question |-> qid,
     selected |-> upper(opt),
     correct  |-> upper(df[qid].answer),
     result   |-> IF is_correct(opt, df[qid].answer) THEN "Correct" ELSE "Wrong"]

\* the row inserted into the responses table
stored(uid, idx, qid, opt) ==
    [user_id      |-> uid,
     question_idx |-> idx,
     question     |-> qid,
     selected     |-> upper(opt),
     correct      |-> is_correct(opt, df[qid].answer)]

\* ---- the entitlement gate ---------------------------------------------------
\* (mutant) any session_id in the URL counts as paid
retrieved_any == query_params # None

\* stripe.checkout.Session.retrieve(session_id).payment_status == "paid"
retrieved_paid == query_params # None /\ checkout[query_params] = "paid"

\* (mutant) a gate that lets an unpaid session through
gate_open(lm, pd) ==
    IF lm # "Full Quiz" THEN "pass"
    ELSE IF retrieved_paid THEN "confirm"
    ELSE "pass"

\* What a run of render_practice does at require_paid, for a locked mode lm
\* and a paid flag pd: "confirm" (paid is set and the script reruns),
\* "blocked" (checkout link, st.stop) or "pass" (the quiz is rendered).
gate(lm, pd) ==
    IF lm # "Full Quiz" THEN "pass"
    ELSE IF retrieved_paid THEN "confirm"
    ELSE IF ~pd THEN "blocked"
    ELSE "pass"

\* create_checkout_session(): a checkout session for the signed-in customer
create_checkout_session(u) ==
    [checkout EXCEPT ![u] = IF @ = "none" THEN "unpaid" ELSE @]

\* The effect of require_paid on paid, the users table and Stripe, in a run
\* that reaches it with locked mode lm; updated says whether the update of
\* the users table went through.
RequirePaid(lm, updated) ==
    CASE gate(lm, paid) = "confirm" ->
            /\ paid' = TRUE
            /\ users_paid' = IF updated THEN users_paid \cup {user} ELSE users_paid
            /\ checkout' = checkout
      [] gate(lm, paid) = "blocked" ->
            /\ checkout' = create_checkout_session(user)
            /\ UNCHANGED <<paid, users_paid>>
      [] OTHER -> UNCHANGED <<paid, users_paid, checkout>>

\* The quiz widgets are rendered: signed in, a quiz locked, the gate passed
\* and df.loc[ids[idx]] defined.
Rendered ==
    /\ user # None
    /\ locked_mode # None
    /\ gate(locked_mode, paid) = "pass"
    /\ current_q_idx < Len(question_list)

\* (mutant) "Start Test" is rendered during a quiz too
start_always == TRUE

\* "Start Test" is rendered: not st.session_state.locked_mode
start_shown == locked_mode = None

\* "Restart" is rendered: the quiz is rendered and test_submitted
restart_shown == Rendered /\ test_submitted

\* (mutant) the option buttons are rendered on every question
answerable_always == TRUE

\* (mutant) the option buttons are still rendered on the last answered question
answerable_late == ~(current_q_idx < Len(responses) - 1)

\* The option buttons are rendered: not (idx < len(responses))
answerable == ~(current_q_idx < Len(responses))

\* (mutant) "Submit Test" is rendered whatever was answered
submit_always == TRUE

\* "Submit Test" is rendered: len(responses) == total
submit_shown == Len(responses) = Len(question_list)

\* "Back" is disabled: idx == 0
back_disabled == current_q_idx = 0

\* "Next" is disabled: idx >= total - 1
next_disabled == current_q_idx >= Len(question_list) - 1

\* The insert into the responses table goes through (the table of the model
\* holds MaxLog rows; an insert into a full table fails like any other)
inserted(saved) == saved /\ Len(responses_tbl) < MaxLog

\* ---- accuracy -------------------------------------------------------------
\* (mutant) the ratio without the factor 100
accuracy_ratio(corr, n) ==
    IF n # 0 THEN [num |-> corr, den |-> n] ELSE [num |-> 0, den |-> 1]

\* (corr / total * 100) if total else 0, as the fraction num / den
accuracy(corr, n) ==
    IF n # 0 THEN [num |-> corr * 100, den |-> n] ELSE [num |-> 0, den |-> 1]

\* The accuracy written under "Test submitted!": corr is the session's
\* counter, total is len(ids)
results_accuracy == accuracy(correct, Len(question_list))

\* The rows render_stats selects: those of the user, in insertion order
history(uid) == SelectSeq(responses_tbl, LAMBDA r : r.user_id = uid)

\* The accuracy metric of render_stats
stats_accuracy(uid) ==
    LET rows == history(uid) IN
    accuracy(Cardinality({i \in DOMAIN rows : rows[i].correct}), Len(rows))

\* ---- initial state -----------------------------------------------------------
\* init_state(): the defaults of a fresh session
defaults ==
    [user |-> None, paid |-> FALSE, total |-> 0, correct |-> 0, start_time |-> None,
     question_list |-> <<>>, current_q_idx |-> 0, responses |-> <<>>,
     locked_mode |-> None, locked_test_mode |-> None, test_submitted |-> FALSE]

\* (mutant) the entitlement flag survives the loss of the session keys
init_state_keep ==
    /\ user' = defaults.user
    /\ paid' = paid
    /\ total' = defaults.total
    /\ correct' = defaults.correct
    /\ start_time' = defaults.start_time
    /\ question_list' = defaults.question_list
    /\ current_q_idx' = defaults.current_q_idx
    /\ responses' = defaults.responses
    /\ locked_mode' = defaults.locked_mode
    /\ locked_test_mode' = defaults.locked_test_mode
    /\ test_submitted' = defaults.test_submitted

\* A session without keys runs init_state() on its first script run
init_state ==
    /\ user' = defaults.user
    /\ paid' = defaults.paid
    /\ total' = defaults.total
    /\ correct' = defaults.correct
    /\ start_time' = defaults.start_time
    /\ question_list' = defaults.question_list
    /\ current_q_idx' = defaults.current_q_idx
    /\ responses' = defaults.responses
    /\ locked_mode' = defaults.locked_mode
    /\ locked_test_mode' = defaults.locked_test_mode
    /\ test_submitted' = defaults.test_submitted

\* A fresh session, empty tables and no checkout session
Fresh ==
    /\ user = defaults.user
    /\ paid = defaults.paid
    /\ total = defaults.total
    /\ correct = defaults.correct
    /\ start_time = defaults.start_time
    /\ question_list = defaults.question_list
    /\ current_q_idx = defaults.current_q_idx
    /\ responses = defaults.responses
    /\ locked_mode = defaults.locked_mode
    /\ locked_test_mode = defaults.locked_test_mode
    /\ test_submitted = defaults.test_submitted
    /\ query_params = None
    /\ checkout = [u \in Users |-> "none"]
    /\ users_paid = {}
    /\ responses_tbl = <<>>
    /\ warned = FALSE

Init == df \in Banks /\ Fresh

\* ---- actions --------------------------------------------------------------------
\* render_auth: Log In / Sign Up succeeds for identity u
SignIn(u) ==
    /\ user' = u
    /\ warned' = FALSE
    /\ UNCHANGED <<df, paid, total, correct, start_time, question_list, current_q_idx,
                   responses, locked_mode, locked_test_mode, test_submitted,
                   query_params, checkout, users_paid, responses_tbl>>

\* "Start Test": the start_test callback, then the script body up to the quiz.
\* stripe_ok says whether the Stripe call of require_paid returned; if it
\* raised, the run ends there with the callback's updates alone.
StartTest(mode, test_mode, chosen, stripe_ok, updated) ==
    /\ user # None
    /\ start_shown
    /\ chosen \in topics
    /\ locked_mode' = mode
    /\ locked_test_mode' = test_mode
    /\ \E ids \in Orders(subset(chosen)) : question_list' = trial(mode, ids)
    /\ responses' = <<>>
    /\ current_q_idx' = 0
    /\ total' = 0
    /\ correct' = 0
    /\ test_submitted' = FALSE
    /\ start_time' = IF test_mode = "Test" THEN "T" ELSE start_time
    /\ IF stripe_ok THEN RequirePaid(mode, updated)
                    ELSE UNCHANGED <<paid, users_paid, checkout>>
    /\ warned' = FALSE
    /\ UNCHANGED <<df, user, query_params, responses_tbl>>

\* A run of the Practice page that stops in require_paid: the payment is
\* confirmed (and the script reruns, to stop here again) or the checkout link
\* is shown.  A run in which the Stripe call raises changes nothing.
RequirePaidRun(updated) ==
    /\ user # None
    /\ locked_mode # None
    /\ gate(locked_mode, paid) # "pass"
    /\ RequirePaid(locked_mode, updated)
    /\ warned' = FALSE
    /\ UNCHANGED <<df, user, total, correct, start_time, question_list, current_q_idx,
                   responses, locked_mode, locked_test_mode, test_submitted,
                   query_params, responses_tbl>>

\* (mutant) the answer is kept only if the insert went through
Answer_rollback(opt, saved) ==
    /\ Rendered
    /\ answerable
    /\ LET qid == question_list[current_q_idx + 1] IN
        /\ total' = IF inserted(saved) THEN total + 1 ELSE total
        /\ correct' = IF inserted(saved) /\ is_correct(opt, df[qid].answer)
                      THEN correct + 1 ELSE correct
        /\ responses' = IF inserted(saved)
                        THEN Append(responses, response(qid, opt)) ELSE responses
        /\ responses_tbl' =
              IF inserted(saved)
              THEN Append(responses_tbl, stored(user, current_q_idx, qid, opt))
              ELSE responses_tbl
        /\ warned' = ~inserted(saved)
    /\ UNCHANGED <<df, user, paid, start_time, question_list, current_q_idx,
                   locked_mode, locked_test_mode, test_submitted,
                   query_params, checkout, users_paid>>

\* (mutant) every answer is counted as a correct one
Answer_miscount(opt, saved) ==
    /\ Rendered
    /\ answerable
    /\ LET qid == question_list[current_q_idx + 1] IN
        /\ total' = total + 1
        /\ correct' = correct + 1
        /\ responses' = Append(responses, response(qid, opt))
        /\ responses_tbl' =
              IF inserted(saved)
              THEN Append(responses_tbl, stored(user, current_q_idx, qid, opt))
              ELSE responses_tbl
        /\ warned' = ~inserted(saved)
    /\ UNCHANGED <<df, user, paid, start_time, question_list, current_q_idx,
                   locked_mode, locked_test_mode, test_submitted,
                   query_params, checkout, users_paid>>

\* An option button: the answer is counted, appended and inserted (saved
\* says whether the insert went through)
Answer(opt, saved) ==
    /\ Rendered
    /\ answerable
    /\ LET qid == question_list[current_q_idx + 1] IN
        /\ total' = total + 1
        /\ correct' = IF is_correct(opt, df[qid].answer) THEN correct + 1 ELSE correct
        /\ responses' = Append(responses, response(qid, opt))
        /\ responses_tbl' =
              IF inserted(saved)
              THEN Append(responses_tbl, stored(user, current_q_idx, qid, opt))
              ELSE responses_tbl
        /\ warned' = ~inserted(saved)
    /\ UNCHANGED <<df, user, paid, start_time, question_list, current_q_idx,
                   locked_mode, locked_test_mode, test_submitted,
                   query_params, checkout, users_paid>>

Back ==
    /\ Rendered
    /\ ~back_disabled
    /\ current_q_idx' = current_q_idx - 1
    /\ warned' = FALSE
    /\ UNCHANGED <<df, user, paid, total, correct, start_time, question_list,
                   responses, locked_mode, locked_test_mode, test_submitted,
                   query_params, checkout, users_paid, responses_tbl>>

NextQ ==
    /\ Rendered
    /\ ~next_disabled
    /\ current_q_idx' = current_q_idx + 1
    /\ warned' = FALSE
    /\ UNCHANGED <<df, user, paid, total, correct, start_time, question_list,
                   responses, locked_mode, locked_test_mode, test_submitted,
                   query_params, checkout, users_paid, responses_tbl>>

Submit ==
    /\ Rendered
    /\ submit_shown
    /\ test_submitted' = TRUE
    /\ warned' = FALSE
    /\ UNCHANGED <<df, user, paid, total, correct, start_time, question_list,
                   current_q_idx, responses, locked_mode, locked_test_mode,
                   query_params, checkout, users_paid, responses_tbl>>

\* "Restart": every key is deleted and init_state() sets the defaults again
Restart ==
    /\ restart_shown
    /\ init_state
    /\ warned' = FALSE
    /\ UNCHANGED <<df, query_params, checkout, users_paid, responses_tbl>>

\* The customer pays the checkout session r and Stripe redirects the browser
\* to success_url: the page loads in a new session with session_id = r.
CompleteCheckout(r) ==
    /\ checkout[r] # "none"
    /\ checkout' = [checkout EXCEPT ![r] = "paid"]
    /\ query_params' = r
    /\ init_state
    /\ warned' = FALSE
    /\ UNCHANGED <<df, users_paid, responses_tbl>>

\* The page is loaded in a new browser session, with the session_id p of an
\* existing checkout session in the URL or with none.
OpenApp(p) ==
    /\ IF p = None THEN TRUE ELSE checkout[p] # "none"
    /\ query_params' = p
    /\ init_state
    /\ warned' = FALSE
    /\ UNCHANGED <<df, checkout, users_paid, responses_tbl>>

\* One script run, or one page load, by the identities in US
Run(US) ==
    \/ \E u \in US : SignIn(u)
    \/ \E mode \in Modes, test_mode \in TestModes, chosen \in {"All"} \cup Topics,
          stripe_ok \in BOOLEAN, updated \in BOOLEAN :
          StartTest(mode, test_mode, chosen, stripe_ok, updated)
    \/ \E updated \in BOOLEAN : RequirePaidRun(updated)
    \/ \E opt \in Clicked, saved \in BOOLEAN : Answer(opt, saved)
    \/ Back
    \/ NextQ
    \/ Submit
    \/ Restart
    \/ \E r \in US : CompleteCheckout(r)
    \/ \E p \in {None} \cup US : OpenApp(p)

\* One identity, every question table
Next == Run({"u1"})

Spec == Init /\ [][Next]_vars

\* Every identity, one question table of MaxQ rows
InitPay ==
    /\ Init
    /\ Len(df) = MaxQ
    /\ \A i \in DOMAIN df : df[i] = [topic |-> "T1", answer |-> "a"]

NextPay == Run(Users)

SpecPay == InitPay /\ [][NextPay]_vars

\* One identity, the question tables of up to MaxQ rows and those around the
\* trial size, up to the start of a quiz
InitTrial == df \in Banks \cup BigBanks /\ Fresh

NextTrial ==
    \/ SignIn("u1")
    \/ \E mode \in Modes, test_mode \in TestModes, chosen \in {"All"} \cup Topics,
          stripe_ok \in BOOLEAN, updated \in BOOLEAN :
          StartTest(mode, test_mode, chosen, stripe_ok, updated)
    \/ OpenApp(None)

SpecTrial == InitTrial /\ [][NextTrial]_vars

\* ---- claims -------------------------------------------------------------------
\* C1: in every state of a started quiz, responses[i] is the answer to the
\* question question_list[i], for every recorded position i.
C1_AnswerInPlace ==
    \A i \in 1..Len(responses) :
        i <= Len(question_list) /\ responses[i].question = question_list[i]

\* C2: no question has more than one response recorded for it in a quiz run.
C2_AnsweredOnce ==
    \A i, j \in 1..Len(responses) :
        responses[i].question = responses[j].question => i = j

\* C3: len(responses) <= len(question_list) in every reachable state.
C3_ResponsesBounded == Len(responses) <= Len(question_list)

C3_Witness ==
    /\ locked_mode # None
    /\ Len(question_list) >= 2
    /\ Len(responses) = Len(question_list)
    /\ current_q_idx = Len(question_list) - 1

\* C4: while the locked mode is Full Quiz and paid is false, no step changes
\* responses, current_q_idx, the counters or test_submitted, and none inserts
\* a response.
C4_GateHalts ==
    [][(locked_mode = "Full Quiz" /\ ~paid) =>
          UNCHANGED <<responses, current_q_idx, total, correct, test_submitted,
                      responses_tbl>>]_vars

C4_Witness ==
    /\ locked_mode = "Full Quiz"
    /\ ~paid
    /\ user # None
    /\ checkout[user] = "unpaid"
    /\ Len(question_list) >= 2

\* C5: an identity whose users row has paid = true is let through the Full
\* Quiz gate in any session it signs in to (stated for a quiz with questions).
C5_DurableEntitlement ==
    (user # None /\ user \in users_paid /\ locked_mode = "Full Quiz"
        /\ Len(question_list) > 0)
        => gate(locked_mode, paid) # "blocked"

\* C6: paid is true only if a payment was confirmed for the identity that is
\* signed in, that is only if that identity's own checkout session is paid.
C6_PaidForSignedIn ==
    paid => (user # None /\ checkout[user] = "paid")

\* C7: a response is marked correct iff the selected letter and the answer
\* letter match ignoring case (both are stored uppercase), in the session
\* and in the responses table.
C7_CaseInsensitive ==
    /\ \A i \in 1..Len(responses) :
          (responses[i].result = "Correct") <=> (responses[i].selected = responses[i].correct)
    /\ \A i \in 1..Len(responses_tbl) :
          responses_tbl[i].correct <=>
              (responses_tbl[i].selected = upper(df[responses_tbl[i].question].answer))

\* C8: test_submitted implies a response at every position; it is set only
\* by a step taken with len(responses) == len(question_list); once set, the
\* responses are frozen and it stays set until the session is reset.
C8_SubmitFreezes ==
    [][/\ test_submitted' => Len(responses') = Len(question_list')
       /\ (~test_submitted /\ test_submitted') =>
              (Len(responses) = Len(question_list) /\ responses' = responses)
       /\ test_submitted =>
              \/ test_submitted' /\ responses' = responses /\ total' = total
              \/ locked_mode' = None /\ responses' = <<>>]_vars

C8_Witness ==
    /\ test_submitted
    /\ Len(question_list) >= 2
    /\ current_q_idx = 0

\* C9: a step whose insert failed still appends the answer and counts it,
\* leaves the rest of the session as it was and leaves the quiz rendered, with
\* an option button, Next or Submit to go on with.
C9_FailedWriteAdvances ==
    [][warned' =>
          /\ \E opt \in Clicked :
                /\ responses' = Append(responses, response(question_list[current_q_idx + 1], opt))
                /\ correct' = correct + (IF responses'[Len(responses')].result = "Correct" THEN 1 ELSE 0)
          /\ total' = total + 1
          /\ UNCHANGED <<user, paid, question_list, current_q_idx, locked_mode,
                         locked_test_mode, test_submitted, start_time, responses_tbl>>
          /\ Rendered'
          /\ (submit_shown' \/ answerable' \/ ~next_disabled')]_vars

C9_Witness ==
    /\ warned
    /\ Len(responses) = 2
    /\ responses_tbl = <<>>

\* C10: in every state of a started quiz, 0 <= current_q_idx <= len(question_list) - 1.
C10_CursorInRange ==
    locked_mode # None =>
        (0 <= current_q_idx /\ current_q_idx <= Len(question_list) - 1)

\* The fraction a equals 100 * c / t, and is 0 when t = 0
IsPercent(a, c, t) == IF t = 0 THEN a.num = 0 ELSE a.num * t = 100 * c * a.den

\* C11: the accuracy shown after submit is 100 * (correct responses) /
\* (questions of the quiz), and the accuracy of the Stats view is 100 *
\* (stored correct rows of the user) / (stored rows of the user), 0 for no rows.
C11_Accuracy ==
    /\ (Rendered /\ test_submitted) =>
          IsPercent(results_accuracy,
                    Cardinality({i \in DOMAIN responses : responses[i].result = "Correct"}),
                    Len(question_list))
    /\ user # None =>
          IsPercent(stats_accuracy(user),
                    Cardinality({i \in DOMAIN responses_tbl :
                                    responses_tbl[i].user_id = user /\ responses_tbl[i].correct}),
                    Cardinality({i \in DOMAIN responses_tbl : responses_tbl[i].user_id = user}))

C11_Witness ==
    /\ Rendered
    /\ test_submitted
    /\ Len(question_list) = 2
    /\ correct = 1
    /\ Len(history(user)) = 1

C14_ConfigLocked ==
    [][locked_mode # None =>
          \/ UNCHANGED <<locked_mode, locked_test_mode, question_list>>
          \/ /\ locked_mode' = None
             /\ locked_test_mode' = None
             /\ question_list' = <<>>
             /\ responses' = <<>>
             /\ user' = None]_vars

C14_Witness ==
    /\ locked_mode = "Free Trial"
    /\ locked_test_mode = "Test"
    /\ test_submitted
    /\ current_q_idx = 1

\* C15: paid turns true only in a step of a Full Quiz run in which the URL
\* holds the id of a checkout session that Stripe reports as paid; otherwise
\* paid stays false, and a Full Quiz with paid false is not rendered.
C15_NoSilentGrant ==
    [][/\ (~paid /\ paid') =>
              /\ query_params # None
              /\ checkout[query_params] = "paid"
              /\ user # None
              /\ locked_mode' = "Full Quiz"
       /\ (locked_mode' = "Full Quiz" /\ ~paid') => ~Rendered']_vars

C15_Witness ==
    /\ paid
    /\ locked_mode = "Full Quiz"
    /\ user \in users_paid

\* C16: in a state with current_q_idx < len(responses) no step appends a
\* response, changes a counter or inserts a row; the responses change only
\* by a reset of the session.
C16_NoReanswer ==
    [][(locked_mode # None /\ current_q_idx < Len(responses)) =>
          /\ responses_tbl' = responses_tbl
          /\ \/ responses' = responses /\ total' = total /\ correct' = correct
             \/ locked_mode' = None /\ responses' = <<>>]_vars

C16_Witness ==
    /\ locked_mode # None
    /\ ~test_submitted
    /\ current_q_idx = 0
    /\ Len(responses) = 1
    /\ Len(question_list) = 2

\* C17: in every state of a started quiz with a signed-in user the Restart
\* button is rendered, so that the reset can be taken.
C17_ResetAlwaysEnabled ==
    (user # None /\ locked_mode # None) => restart_shown

\* C18: whenever the session flag paid is set, the users table marks the
\* signed-in identity as paid.
C18_DurableWithFlag ==
    (paid /\ user # None) => user \in users_paid

\* C19: a step taken from a state that shows Restart and ending with no locked
\* mode leaves every session field at its default and the responses table as
\* it was; and every step keeps the rows the responses table already holds.
C19_RestartClears ==
    [][/\ (restart_shown /\ locked_mode' = None) =>
              /\ user' = None
              /\ paid' = FALSE
              /\ total' = 0
              /\ correct' = 0
              /\ start_time' = None
              /\ question_list' = <<>>
              /\ current_q_idx' = 0
              /\ responses' = <<>>
              /\ locked_test_mode' = None
              /\ test_submitted' = FALSE
              /\ responses_tbl' = responses_tbl
       /\ Len(responses_tbl') >= Len(responses_tbl)
       /\ \A i \in DOMAIN responses_tbl : responses_tbl'[i] = responses_tbl[i]]_vars

C19_Witness ==
    /\ user = None
    /\ locked_mode = None
    /\ ~paid
    /\ query_params # None
    /\ users_paid # {}
    /\ responses_tbl # <<>>

\* C20: total is the number of responses and correct is the number of
\* responses whose result is "Correct".
C20_CountersAgree ==
    /\ total = Len(responses)
    /\ correct = Cardinality({i \in DOMAIN responses : responses[i].result = "Correct"})

C20_Witness ==
    /\ total = 2
    /\ correct = 1
    /\ responses[1].result = "Wrong"
    /\ responses[2].result = "Correct"

====
